---------------------------- MODULE Spec2Model ----------------------------
(***************************************************************************)
(* A model of learning.py (aima-python, Python 2): the DataSet class, the  *)
(* decision-tree learner, the k-nearest-neighbour learner and the          *)
(* evaluation harness (test, train_and_test, cross_validation).            *)
(*                                                                         *)
(* Conventions.                                                            *)
(*  - A Python list is a TLA+ sequence.  Python indexes from 0, TLA+ from  *)
(*    1: attribute a of an example is example[a + 1] (operator At).        *)
(*  - Attribute values are small naturals; Python's None is the integer    *)
(*    NoneVal = -1, which like None in Python 2 orders below every number. *)
(*  - dataset is the DataSet object; op, arg, ret, err, before and log     *)
(*    record the last call made on it: its name, its arguments, what it    *)
(*    returned, the exception it raised ("none" when it returned), the     *)
(*    value of dataset.examples when the call started, and the calls of    *)
(*    train_and_test it made.                                              *)
(***************************************************************************)
EXTENDS Integers, Sequences, FiniteSets, TLC

VARIABLES dataset, op, arg, ret, err, before, log

vars == <<dataset, op, arg, ret, err, before, log>>

-----------------------------------------------------------------------------
(* Bounds of the model, and the value domain the examples are drawn from.  *)

MaxDataExamples == 2

MaxConfigExamples == 2

MaxEvalExamples == 3

MaxTreeExamples == 4

MaxInductionExamples == 5

MaxTrialExamples == 2

MaxNeighborExamples == 3

Vals == {0, 1}

NoneVal == 0 - 1

\* The attrs of the DataSet objects of SpecData and SpecConfig: range(2).
DataAttrs == <<0, 1>>

DataWidth == Len(DataAttrs)

-----------------------------------------------------------------------------
(* Lists.                                                                  *)

Range(s) == {s[i] : i \in DOMAIN s}

At(example, a) == example[a + 1]

\* range(n): the list 0, 1, ..., n-1.
PyRange(n) == [i \in 1..n |-> i - 1]

\* All lists of length at most n over the set S.
SeqUpTo(S, n) == UNION {[1..m -> S] : m \in 0..n}

\* utils.removeall(item, seq): a copy of seq with every occurrence of item removed.
removeall(item, seq) == SelectSeq(seq, LAMBDA x : x # item)

\* utils.unique(seq): the distinct elements of seq (list(set(seq)): no order kept).
unique(seq) == Range(seq)

-----------------------------------------------------------------------------
(* DataSet.                                                                *)

\* DataSet.attrnum for a numeric attribute reference: -n .. n-1.
attrnum(ds, attr) == IF attr < 0 THEN Len(ds.attrs) + attr ELSE attr

\* map(unique, zip(*examples)): one value set per column; no columns when
\* there are no examples.
ComputeValues(examples) ==
    IF examples = <<>> THEN <<>>
    ELSE [c \in 1..Len(examples[1]) |-> unique([i \in 1..Len(examples) |-> examples[i][c]])]

\* DataSet.check_example: the exception it raises, "none" when it returns.
\* An empty values list is falsy: nothing is checked.
check_example(ds, example) ==
    IF ds.values # <<>>
        THEN IF \E i \in 1..Len(ds.attrs) : At(example, ds.attrs[i]) \notin At(ds.values, ds.attrs[i])
                THEN "ValueError"
                ELSE "none"
        ELSE "none"

\* DataSet.check_me: the first failing assertion, else the first failing example.
check_me(ds) ==
    IF Len(ds.attrnames) # Len(ds.attrs) THEN "AssertionError"
    ELSE IF ds.target \notin Range(ds.attrs) THEN "AssertionError"
    ELSE IF ds.target \in Range(ds.inputs) THEN "AssertionError"
    ELSE IF ~(Range(ds.inputs) \subseteq Range(ds.attrs)) THEN "AssertionError"
    ELSE IF \E i \in 1..Len(ds.examples) : check_example(ds, ds.examples[i]) # "none"
        THEN "ValueError"
    ELSE "none"

\* A plausible slip: the supplied inputs are stored as given.
setproblem_keep_inputs(ds, target, inputs, exclude) ==
    LET t  == attrnum(ds, target)
        ex == {attrnum(ds, x) : x \in exclude}
        d1 == [ds EXCEPT !.target = t,
                         !.inputs = IF inputs # <<>> THEN inputs
                                    ELSE SelectSeq(ds.attrs, LAMBDA a : a # t /\ a \notin ex)]
        d2 == [d1 EXCEPT !.values = IF d1.values = <<>> THEN ComputeValues(d1.examples)
                                    ELSE d1.values]
    IN  [ds |-> d2, err |-> check_me(d2)]

\* DataSet.setproblem: the object after the call (its fields are assigned
\* before check_me runs, so they stay assigned when it raises) and the
\* exception raised.  inputs = <<>> stands for None or an empty list (both
\* falsy); exclude is a collection of attribute references.
setproblem(ds, target, inputs, exclude) ==
    LET t  == attrnum(ds, target)
        ex == {attrnum(ds, x) : x \in exclude}
        d1 == [ds EXCEPT !.target = t,
                         !.inputs = IF inputs # <<>> THEN removeall(t, inputs)
                                    ELSE SelectSeq(ds.attrs, LAMBDA a : a # t /\ a \notin ex)]
        d2 == [d1 EXCEPT !.values = IF d1.values = <<>> THEN ComputeValues(d1.examples)
                                    ELSE d1.values]
    IN  [ds |-> d2, err |-> check_me(d2)]

\* DataSet.__init__ on a list of examples, values not supplied.  attrs is
\* range(len(examples[0])), or the explicit list given with no examples.
DataSetInit(examples, attrs, target, inputs, exclude) ==
    LET a  == IF attrs = <<>> /\ examples # <<>> THEN PyRange(Len(examples[1])) ELSE attrs
        d0 == [examples |-> examples, attrs |-> a, attrnames |-> a,
               target |-> 0, inputs |-> <<>>, values |-> <<>>]
    IN  setproblem(d0, target, inputs, exclude)

\* A plausible slip: the example is appended before it is checked.
add_example_unchecked(ds, example) ==
    [ds |-> [ds EXCEPT !.examples = Append(ds.examples, example)],
     err |-> check_example(ds, example)]

\* DataSet.add_example: check_example first; append only when it returned.
add_example(ds, example) ==
    LET e == check_example(ds, example)
    IN  [ds |-> IF e = "none" THEN [ds EXCEPT !.examples = Append(ds.examples, example)] ELSE ds,
         err |-> e]

\* A plausible slip: enumerate counted from 1.
sanitize_off_by_one(ds, example) ==
    [result |-> [i \in 1..Len(example) |->
                    IF i \in Range(ds.inputs) THEN example[i] ELSE NoneVal],
     example |-> example]

\* DataSet.sanitize: the new list it returns, and the argument list as the
\* call leaves it (the comprehension builds a fresh list).
sanitize(ds, example) ==
    [result |-> [i \in 1..Len(example) |->
                    IF (i - 1) \in Range(ds.inputs) THEN example[i] ELSE NoneVal],
     example |-> example]

-----------------------------------------------------------------------------
(* DataSet.add_example, DataSet.sanitize and re-running setproblem, as a   *)
(* state machine over one DataSet object.                                  *)

DataRows == [1..DataWidth -> Vals]

\* Rows a caller may pass: a value outside every computed value set included.
AnyRows == [1..DataWidth -> Vals \cup {2}]

\* DataSet(examples=E, target=t), or DataSet(examples=[], attrs=range(DataWidth)).
DataInit ==
    /\ \E E \in SeqUpTo(DataRows, MaxDataExamples), t \in {0 - 1, 0} :
          dataset = DataSetInit(E, IF E = <<>> THEN PyRange(DataWidth) ELSE <<>>,
                                t, <<>>, {}).ds
    /\ op = "init"
    /\ arg = <<>>
    /\ ret = <<>>
    /\ err = "none"
    /\ before = dataset.examples
    /\ log = <<>>

AddExample ==
    /\ Len(dataset.examples) < MaxDataExamples + 1
    /\ \E example \in AnyRows :
          LET r == add_example(dataset, example)
          IN  /\ dataset' = r.ds
              /\ err' = r.err
              /\ arg' = example
    /\ op' = "add_example"
    /\ ret' = dataset.values
    /\ before' = dataset.examples
    /\ log' = <<>>

\* dataset.setproblem(t): the target changed, inputs and exclude left at
\* their defaults.
Reconfigure ==
    /\ \E t \in {0 - 1, 0} :
          LET r == setproblem(dataset, t, <<>>, {})
          IN  /\ dataset' = r.ds
              /\ err' = r.err
              /\ arg' = t
    /\ op' = "setproblem"
    /\ ret' = <<>>
    /\ before' = dataset.examples
    /\ log' = <<>>

Sanitize ==
    /\ \E example \in AnyRows \cup {[i \in 1..DataWidth |-> NoneVal]} :
          LET r == sanitize(dataset, example)
          IN  /\ ret' = r.result
              /\ arg' = [example |-> r.example, given |-> example]
    /\ op' = "sanitize"
    /\ err' = "none"
    /\ before' = dataset.examples
    /\ UNCHANGED <<dataset, log>>

DataNext == AddExample \/ Reconfigure \/ Sanitize

SpecData == DataInit /\ [][DataNext]_vars

\* Some attribute of example has no value set in values, or a value outside it.
OutOfDomain(attrs, values, example) ==
    \E i \in 1..Len(attrs) :
        \/ attrs[i] + 1 > Len(values)
        \/ At(example, attrs[i]) \notin At(values, attrs[i])

\* C2 as stated: every stored example has, at each attribute in attrs, a value
\* in that attribute's value set; add_example raises ValueError and appends
\* nothing for a row with an out-of-domain value, and appends a valid row at
\* the end.  (ret holds dataset.values as add_example found it.)
C2_AsStated ==
    /\ \A j \in 1..Len(dataset.examples) :
          ~OutOfDomain(dataset.attrs, dataset.values, dataset.examples[j])
    /\ op = "add_example" =>
          IF OutOfDomain(dataset.attrs, ret, arg)
             THEN err = "ValueError" /\ dataset.examples = before
             ELSE err = "none" /\ dataset.examples = Append(before, arg)

\* C2 amended: the same, for a DataSet whose values list is populated
\* (non-empty, as it is whenever it was computed from at least one example).
C2_PopulatedValuesEnforced ==
    /\ dataset.values # <<>> =>
          \A j \in 1..Len(dataset.examples) :
              ~OutOfDomain(dataset.attrs, dataset.values, dataset.examples[j])
    /\ (op = "add_example" /\ ret # <<>>) =>
          IF OutOfDomain(dataset.attrs, ret, arg)
             THEN err = "ValueError" /\ dataset.examples = before
             ELSE err = "none" /\ dataset.examples = Append(before, arg)

\* add_example rejected a row with an out-of-domain value.
C2_Witness ==
    /\ op = "add_example"
    /\ ret # <<>>
    /\ OutOfDomain(dataset.attrs, ret, arg)
    /\ err = "ValueError"
    /\ Len(before) > 0

\* C6: sanitize(sanitize(row)) = sanitize(row); the result keeps the row's
\* value at every input attribute position and holds None at every other
\* position; the row passed in is left as it was given.
C6_SanitizeIdempotent ==
    op = "sanitize" =>
        /\ sanitize(dataset, ret).result = ret
        /\ Len(ret) = Len(arg.given)
        /\ \A a \in 0..(Len(arg.given) - 1) :
              At(ret, a) = IF a \in Range(dataset.inputs) THEN At(arg.given, a) ELSE NoneVal
        /\ arg.example = arg.given

\* sanitize kept an input value and cleared a non-input value.
C6_Witness ==
    /\ op = "sanitize"
    /\ \E a \in Range(dataset.inputs) : At(ret, a) = At(arg.given, a) /\ At(ret, a) # NoneVal
    /\ \E a \in 0..(Len(arg.given) - 1) : At(ret, a) = NoneVal /\ At(arg.given, a) # NoneVal

-----------------------------------------------------------------------------
(* Constructing a DataSet with explicit target, inputs and exclude, and    *)
(* reconfiguring it with setproblem.                                       *)

\* The explicit inputs lists tried: none (<<>>), lists with and without the
\* target, and one with an attribute outside attrs.
InputsArgs == {<<>>, <<0>>, <<1>>, <<0, 1>>, <<1, 0, 1>>, <<0, 2>>}

TargetArgs == {0 - 1, 0, 1, 2}

ExcludeArgs == {{}, {0}}

\* DataSet(examples=E, target=t, inputs=i, exclude=x).
ConfigInit ==
    /\ \E E \in SeqUpTo(DataRows, MaxConfigExamples) \ {<<>>},
          target \in TargetArgs, inputs \in InputsArgs, exclude \in ExcludeArgs :
          LET r == DataSetInit(E, <<>>, target, inputs, exclude)
          IN  /\ dataset = r.ds
              /\ err = r.err
              /\ arg = [target |-> target, inputs |-> inputs, exclude |-> exclude]
    /\ op = "init"
    /\ ret = <<>>
    /\ before = dataset.examples
    /\ log = <<>>

\* dataset.setproblem(t, inputs=i, exclude=x) on a DataSet that was constructed
\* (a constructor that raised returned no object to call it on).
SetProblem ==
    /\ ~(op = "init" /\ err # "none")
    /\ \E target \in TargetArgs, inputs \in InputsArgs, exclude \in ExcludeArgs :
          LET r == setproblem(dataset, target, inputs, exclude)
          IN  /\ dataset' = r.ds
              /\ err' = r.err
              /\ arg' = [target |-> target, inputs |-> inputs, exclude |-> exclude]
    /\ op' = "setproblem"
    /\ ret' = <<>>
    /\ before' = dataset.examples
    /\ log' = <<>>

ConfigNext == SetProblem

SpecConfig == ConfigInit /\ [][ConfigNext]_vars

\* The call (constructor or setproblem) was given an explicit inputs list
\* that contains the target attribute.
InputsOverlapTarget ==
    /\ op \in {"init", "setproblem"}
    /\ arg.inputs # <<>>
    /\ attrnum(dataset, arg.target) \in Range(arg.inputs)

\* C5 as stated: constructing or reconfiguring with an explicit inputs list
\* that contains the target fails with a configuration error.
C5_AsStated == InputsOverlapTarget => err = "AssertionError"

\* C5 amended: such a call stores the supplied list with every occurrence of
\* the target removed, so the stored inputs never contain the target, and it
\* raises only when the target, or another supplied input, is outside attrs.
C5_OverlapRemoved ==
    InputsOverlapTarget =>
        LET t == attrnum(dataset, arg.target)
        IN  /\ dataset.target = t
            /\ dataset.inputs = SelectSeq(arg.inputs, LAMBDA a : a # t)
            /\ t \notin Range(dataset.inputs)
            /\ err \in {"none", "AssertionError"}
            /\ err = "AssertionError" <=>
                  \/ t \notin Range(dataset.attrs)
                  \/ ~((Range(arg.inputs) \ {t}) \subseteq Range(dataset.attrs))

\* setproblem accepted an inputs list that contained the target.
C5_Witness ==
    /\ InputsOverlapTarget
    /\ op = "setproblem"
    /\ err = "none"
    /\ Len(dataset.inputs) < Len(arg.inputs)

-----------------------------------------------------------------------------
(* Learners and predictors.  A predictor is a closure; it is modelled by a *)
(* record naming the function and holding what the closure captured.       *)

\* How many elements of seq satisfy e[attr] == val (count in DecisionTreeLearner).
count(attr, val, examples) ==
    Cardinality({i \in 1..Len(examples) : At(examples[i], attr) = val})

\* utils.mode(values): a most common value of the list; the values it may
\* return (ties are not ordered here), none for an empty list, on which it
\* raises IndexError.
ModeSet(values) ==
    {v \in Range(values) :
        \A w \in Range(values) :
            Cardinality({i \in 1..Len(values) : values[i] = w})
                <= Cardinality({i \in 1..Len(values) : values[i] = v})}

\* mean_boolean_error(predictions, targets): the mean of (p != t) over
\* zip(predictions, targets), as the fraction <<mismatches, length>>.
mean_boolean_error(predictions, targets) ==
    LET n == IF Len(predictions) < Len(targets) THEN Len(predictions) ELSE Len(targets)
    IN  <<Cardinality({i \in 1..n : predictions[i] # targets[i]}), n>>

\* d1 < d2 and d1 == d2 for two such fractions.
FracLess(d1, d2) == d1[1] * d2[2] < d2[1] * d1[2]

FracEq(d1, d2) == d1[1] * d2[2] = d2[1] * d1[2]

\* Python's list comparison e1 < e2: the first differing element decides, a
\* proper prefix is smaller.
ListLess(e1, e2) ==
    \/ \E i \in 1..Len(e1) :
          /\ i <= Len(e2)
          /\ e1[i] < e2[i]
          /\ \A j \in 1..(i - 1) : e1[j] = e2[j]
    \/ /\ Len(e1) < Len(e2)
       /\ \A j \in 1..Len(e1) : e1[j] = e2[j]

\* Python's tuple comparison (d1, e1) < (d2, e2) on the pairs handed to nsmallest.
PairLess(p, q) == FracLess(p.d, q.d) \/ (FracEq(p.d, q.d) /\ ListLess(p.e, q.e))

\* seq without its i-th element.
DropAt(seq, i) == SubSeq(seq, 1, i - 1) \o SubSeq(seq, i + 1, Len(seq))

\* A plausible slip: the neighbours are selected on the distance alone
\* (nsmallest with key = the distance), equal distances in input order.
RECURSIVE nsmallest_by_distance(_, _)
nsmallest_by_distance(k, items) ==
    IF k <= 0 \/ items = <<>> THEN <<>>
    ELSE LET i == CHOOSE i \in 1..Len(items) :
                     \A j \in 1..Len(items) :
                         /\ ~FracLess(items[j].d, items[i].d)
                         /\ j < i => FracLess(items[i].d, items[j].d)
         IN  <<items[i]>> \o nsmallest_by_distance(k - 1, DropAt(items, i))

\* heapq.nsmallest(k, items): the k smallest items in ascending order,
\* compared as Python compares the items themselves (here the tuples
\* (distance, example)); among equal items the earlier one first.
RECURSIVE nsmallest(_, _)
nsmallest(k, items) ==
    IF k <= 0 \/ items = <<>> THEN <<>>
    ELSE LET i == CHOOSE i \in 1..Len(items) :
                     \A j \in 1..Len(items) :
                         /\ ~PairLess(items[j], items[i])
                         /\ j < i => PairLess(items[i], items[j])
         IN  <<items[i]>> \o nsmallest(k - 1, DropAt(items, i))

\* The list best built by NearestNeighborLearner's predict: dataset.examples
\* is read when the prediction is made.
NearestBest(ds, k, example) ==
    nsmallest(k, [i \in 1..Len(ds.examples) |->
                    [d |-> mean_boolean_error(ds.examples[i], example),
                     e |-> ds.examples[i]]])

\* PluralityLearner(dataset): the outcomes of the call: it raises on an empty
\* training set (mode of an empty list), else returns a constant predictor.
PluralityLearner(ds) ==
    LET targets == [i \in 1..Len(ds.examples) |-> At(ds.examples[i], ds.target)]
    IN  IF targets = <<>>
           THEN {[err |-> "IndexError", predict |-> [kind |-> "none", value |-> NoneVal, k |-> 0]]}
           ELSE {[err |-> "none", predict |-> [kind |-> "constant", value |-> m, k |-> 0]]
                    : m \in ModeSet(targets)}

\* NearestNeighborLearner(dataset, k): returns the closure predict.
NearestNeighborLearner(ds, k) ==
    {[err |-> "none", predict |-> [kind |-> "nearest", value |-> NoneVal, k |-> k]]}

\* learner(dataset) for the learners tried by the harness.
Learn(learner, ds) ==
    IF learner = "PluralityLearner" THEN PluralityLearner(ds)
    ELSE NearestNeighborLearner(ds, 1)

-----------------------------------------------------------------------------
(* DecisionTreeLearner.  A tree is a record: a DecisionLeaf holds result, a *)
(* DecisionFork holds attr and branches, a function from attribute values  *)
(* to subtrees (the dict filled by add).  Each function below takes the    *)
(* DataSet ds for the target and values the closure captured.  Where the   *)
(* code draws at random (argmax_random_tie), the model returns the set of  *)
(* results the draw may give.                                              *)

DecisionLeaf(result) ==
    [kind |-> "leaf", result |-> result, attr |-> NoneVal, branches |-> <<>>]

DecisionFork(attr, branches) ==
    [kind |-> "fork", result |-> NoneVal, attr |-> attr, branches |-> branches]

\* DecisionFork.__call__ / DecisionLeaf.__call__: a missing branch is a KeyError.
RECURSIVE TreeCall(_, _)
TreeCall(tree, example) ==
    IF tree.kind = "leaf" THEN [err |-> "none", value |-> tree.result]
    ELSE IF At(example, tree.attr) \in DOMAIN tree.branches
            THEN TreeCall(tree.branches[At(example, tree.attr)], example)
            ELSE [err |-> "KeyError", value |-> NoneVal]

\* plurality_value: the leaves argmax_random_tie over values[target] may give.
plurality_value(ds, examples) ==
    {DecisionLeaf(v) : v \in
        {v \in At(ds.values, ds.target) :
            \A w \in At(ds.values, ds.target) :
                count(ds.target, w, examples) <= count(ds.target, v, examples)}}

\* A plausible slip: the class is read from attribute 0, not from the target.
all_same_class_wrong_column(ds, examples) ==
    \A i \in 1..Len(examples) : At(examples[i], 0) = At(examples[1], 0)

\* A plausible slip: any() where all() was meant.
all_same_class_any(ds, examples) ==
    \E i \in 1..Len(examples) : At(examples[i], ds.target) = At(examples[1], ds.target)

all_same_class(ds, examples) ==
    \A i \in 1..Len(examples) : At(examples[i], ds.target) = At(examples[1], ds.target)

\* A plausible slip: pairs only for the values found among the examples.
split_by_values_present(ds, attr, examples) ==
    [v \in {At(examples[i], attr) : i \in 1..Len(examples)} |->
        SelectSeq(examples, LAMBDA e : At(e, attr) = v)]

\* split_by: for each value v of attr, the examples with e[attr] == v.
split_by(ds, attr, examples) ==
    [v \in At(ds.values, attr) |-> SelectSeq(examples, LAMBDA e : At(e, attr) = v)]

\* c ** c, with 0 ** 0 = 1.
Power(b, e) ==
    LET pow[p \in Nat \X Nat] == IF p[2] = 0 THEN 1 ELSE p[1] * pow[<<p[1], p[2] - 1>>]
    IN  pow[<<b, e>>]

\* The product of f[x] over x in S.
RECURSIVE Product(_, _)
Product(f, S) ==
    IF S = {} THEN 1
    ELSE LET x == CHOOSE x \in S : TRUE IN f[x] * Product(f, S \ {x})

\* The fractions num / den of natural numbers.
Fraction == [num : Nat, den : Nat]

GCD(a, b) ==
    LET gcd[p \in Nat \X Nat] == IF p[2] = 0 THEN p[1] ELSE gcd[<<p[2], p[1] % p[2]>>]
    IN  gcd[<<a, b>>]

\* The fraction num / den in lowest terms.
Lowest(num, den) ==
    LET low[p \in Nat \X Nat] ==
            LET g == GCD(p[1], p[2]) IN [num |-> p[1] \div g, den |-> p[2] \div g]
    IN  low[<<num, den>>]

\* information_content of the target counts of examples, times their number
\* s, as the exact fraction whose base-2 logarithm it is:
\*    s * sum(-(c/s) * log2(c/s)) = log2(s**s / prod(c**c)),
\* the zero counts removed.  The float arithmetic of the code is not
\* modelled: the fraction is the value it rounds.
information_content(ds, examples) ==
    LET content[c \in [At(ds.values, ds.target) -> Nat]] ==
            Lowest(Power(Len(examples), Len(examples)),
                   Product([v \in DOMAIN c |-> Power(c[v], c[v])], DOMAIN c))
    IN  content[[v \in At(ds.values, ds.target) |-> count(ds.target, v, examples)]]

\* information_gain(attr, examples) times N = len(examples), as the exact
\* fraction whose base-2 logarithm it is: I(examples) - remainder, with
\* remainder = sum((len(examples_i) / N) * I(examples_i)).
information_gain(ds, attr, examples) ==
    LET parts == split_by(ds, attr, examples)
        gain[I \in Fraction, Ii \in [DOMAIN parts -> Fraction]] ==
            LET R == Lowest(Product([v \in DOMAIN Ii |-> Ii[v].num], DOMAIN Ii),
                            Product([v \in DOMAIN Ii |-> Ii[v].den], DOMAIN Ii))
                G == Lowest(I.num, R.num)
                H == Lowest(R.den, I.den)
            IN  Lowest(G.num * H.num, G.den * H.den)
    IN  gain[information_content(ds, examples),
             [v \in DOMAIN parts |-> information_content(ds, parts[v])]]

\* a / b < c / d for naturals a, c and positive b, d, by comparing the
\* quotients and then, inverted, the remainders (no product is formed).
RatLess(a, b, c, d) ==
    LET less[q \in Nat \X Nat \X Nat \X Nat] ==
            IF q[1] \div q[2] # q[3] \div q[4] THEN q[1] \div q[2] < q[3] \div q[4]
            ELSE IF q[3] % q[4] = 0 THEN FALSE
            ELSE IF q[1] % q[2] = 0 THEN TRUE
            ELSE less[<<q[4], q[3] % q[4], q[2], q[1] % q[2]>>]
    IN  less[<<a, b, c, d>>]

\* g1 < g2 for two such gains on the same examples.
GainLess(g1, g2) == RatLess(g1.num, g1.den, g2.num, g2.den)

\* choose_attribute: the attributes argmax_random_tie may give, those of
\* highest information gain.
choose_attribute(ds, attrs, examples) ==
    {a \in Range(attrs) :
        \A b \in Range(attrs) :
            ~GainLess(information_gain(ds, a, examples), information_gain(ds, b, examples))}

\* decision_tree_learning(examples, attrs, parent_examples): the trees it may
\* return.
RECURSIVE decision_tree_learning(_, _, _, _)
decision_tree_learning(ds, examples, attrs, parent_examples) ==
    IF Len(examples) = 0 THEN plurality_value(ds, parent_examples)
    ELSE IF all_same_class(ds, examples)
        THEN {DecisionLeaf(At(examples[1], ds.target))}
    ELSE IF Len(attrs) = 0 THEN plurality_value(ds, examples)
    ELSE UNION {
           LET parts    == split_by(ds, A, examples)
               subtrees == [v \in DOMAIN parts |->
                              decision_tree_learning(ds, parts[v], removeall(A, attrs), examples)]
           IN  {DecisionFork(A, b) :
                   b \in {b \in [DOMAIN parts -> UNION {subtrees[v] : v \in DOMAIN parts}] :
                             \A v \in DOMAIN parts : b[v] \in subtrees[v]}}
           : A \in choose_attribute(ds, attrs, examples)}

\* DecisionTreeLearner(dataset): the trees it may return.
DecisionTreeLearner(ds) == decision_tree_learning(ds, ds.examples, ds.inputs, <<>>)

\* predict(example): the outcomes of applying a predictor, ds being the
\* DataSet object as it is when the prediction is made.
Predict(p, ds, example) ==
    IF p.kind = "constant" THEN {[err |-> "none", value |-> p.value]}
    ELSE IF p.kind = "tree" THEN {TreeCall(p.tree, example)}
    ELSE LET best  == NearestBest(ds, p.k, example)
             votes == [i \in 1..Len(best) |-> At(best[i].e, ds.target)]
         IN  IF votes = <<>> THEN {[err |-> "IndexError", value |-> NoneVal]}
             ELSE {[err |-> "none", value |-> m] : m \in ModeSet(votes)}

-----------------------------------------------------------------------------
(* test, train_and_test, cross_validation, leave1out.                      *)

\* The loop of test from its i-th example on, right being the count so far.
RECURSIVE TestLoop(_, _, _, _, _)
TestLoop(p, ds, examples, i, right) ==
    IF i > Len(examples)
       THEN {[err |-> "none", right |-> right, total |-> Len(examples)]}
       ELSE UNION {
              IF o.err # "none"
                 THEN {[err |-> o.err, right |-> right, total |-> Len(examples)]}
                 ELSE TestLoop(p, ds, examples, i + 1,
                               IF o.value = At(examples[i], ds.target) THEN right + 1 ELSE right)
              : o \in Predict(p, ds, sanitize(ds, examples[i]).result)}

\* test(predict, dataset, examples): the outcomes; the proportion returned is
\* right / total, and 0.0 when there are no examples (total = 0).
test(p, ds, examples) == TestLoop(p, ds, examples, 1, 0)

\* examples[:start] + examples[end:] and examples[start:end] for start, end >= 0;
\* a slice bound past the end of the list stands for the end of the list.
SliceOutside(examples, start, end) ==
    LET n == Len(examples)
        s == IF start > n THEN n ELSE start
        e == IF end > n THEN n ELSE end
    IN  SubSeq(examples, 1, s) \o SubSeq(examples, e + 1, n)

SliceInside(examples, start, end) ==
    LET n == Len(examples)
        s == IF start > n THEN n ELSE start
        e == IF end > n THEN n ELSE end
    IN  IF s >= e THEN <<>> ELSE SubSeq(examples, s + 1, e)

\* The outcomes of the try block of train_and_test on the DataSet ds1 whose
\* examples are the training examples.
TryTrainAndTest(learner, ds1, held) ==
    UNION { IF l.err # "none"
               THEN {[err |-> l.err, right |-> 0, total |-> 0]}
               ELSE test(l.predict, ds1, held)
            : l \in Learn(learner, ds1) }

\* A plausible slip: dataset.examples is put back only after a normal return.
train_and_test_no_finally(learner, ds, start, end) ==
    LET examples == ds.examples
        ds1 == [ds EXCEPT !.examples = SliceOutside(examples, start, end)]
    IN  {[ds |-> IF t.err = "none" THEN [ds1 EXCEPT !.examples = examples] ELSE ds1,
          err |-> t.err, acc |-> <<t.right, t.total>>,
          call |-> [start |-> start, end |-> end, trained |-> ds1.examples,
                    tested |-> SliceInside(examples, start, end)]]
         : t \in TryTrainAndTest(learner, ds1, SliceInside(examples, start, end))}

\* A plausible slip: dataset.examples is never put back.
train_and_test_no_restore(learner, ds, start, end) ==
    LET examples == ds.examples
        ds1 == [ds EXCEPT !.examples = SliceOutside(examples, start, end)]
    IN  {[ds |-> ds1,
          err |-> t.err, acc |-> <<t.right, t.total>>,
          call |-> [start |-> start, end |-> end, trained |-> ds1.examples,
                    tested |-> SliceInside(examples, start, end)]]
         : t \in TryTrainAndTest(learner, ds1, SliceInside(examples, start, end))}

\* train_and_test(learner, dataset, start, end): the outcomes of the call:
\* the DataSet object after it, the exception raised, the accuracy returned,
\* and what the learner and test were given.
train_and_test(learner, ds, start, end) ==
    LET examples == ds.examples
        ds1 == [ds EXCEPT !.examples = SliceOutside(examples, start, end)]
    IN  {[ds |-> [ds1 EXCEPT !.examples = examples],
          err |-> t.err, acc |-> <<t.right, t.total>>,
          call |-> [start |-> start, end |-> end, trained |-> ds1.examples,
                    tested |-> SliceInside(examples, start, end)]]
         : t \in TryTrainAndTest(learner, ds1, SliceInside(examples, start, end))}

\* random.shuffle(examples): the orders it may leave the list in.
Shuffles(examples) ==
    {[i \in 1..Len(examples) |-> examples[f[i]]] : f \in Permutations(1..Len(examples))}

\* The folds i, i+1, ..., k-1 of one trial on the shuffled DataSet; n / k is
\* Python 2's integer division.  An exception of a fold ends the call.
RECURSIVE CVFolds(_, _, _, _, _, _, _)
CVFolds(learner, ds, n, k, i, accs, calls) ==
    IF i >= k
       THEN {[ds |-> ds, err |-> "none", accs |-> accs, calls |-> calls]}
       ELSE UNION {
              IF r.err # "none"
                 THEN {[ds |-> r.ds, err |-> r.err, accs |-> accs,
                        calls |-> Append(calls, r.call)]}
                 ELSE CVFolds(learner, r.ds, n, k, i + 1, Append(accs, r.acc),
                              Append(calls, r.call))
              : r \in train_and_test(learner, ds, i * (n \div k), (i + 1) * (n \div k))}

\* cross_validation with trials = 1: shuffle dataset.examples in place, then
\* the k folds.
CVTrial(learner, ds, k) ==
    UNION { {[ds |-> r.ds, err |-> r.err, accs |-> r.accs, calls |-> r.calls,
              shuffled |-> P]
             : r \in CVFolds(learner, [ds EXCEPT !.examples = P], Len(P), k, 0, <<>>, <<>>)}
            : P \in Shuffles(ds.examples) }

\* cross_validation with trials > 1: the trials one after the other.
RECURSIVE CVTrials(_, _, _, _, _, _, _)
CVTrials(learner, ds, k, trials, accs, calls, shuffled) ==
    IF trials = 0
       THEN {[ds |-> ds, err |-> "none", accs |-> accs, calls |-> calls, shuffled |-> shuffled]}
       ELSE UNION {
              IF r.err # "none"
                 THEN {[ds |-> r.ds, err |-> r.err, accs |-> accs,
                        calls |-> calls \o r.calls, shuffled |-> r.shuffled]}
                 ELSE CVTrials(learner, r.ds, k, trials - 1, accs \o r.accs,
                               calls \o r.calls, r.shuffled)
              : r \in CVTrial(learner, ds, k)}

\* cross_validation(learner, dataset, k, trials): the outcomes of the call.
\* k = NoneVal stands for k=None; accs are the accuracies whose mean is returned.
cross_validation(learner, ds, k, trials) ==
    LET kk == IF k = NoneVal THEN Len(ds.examples) ELSE k
    IN  IF trials > 1 THEN CVTrials(learner, ds, kk, trials, <<>>, <<>>, ds.examples)
        ELSE CVTrial(learner, ds, kk)

\* leave1out(learner, dataset).
leave1out(learner, ds) == cross_validation(learner, ds, Len(ds.examples), 1)

-----------------------------------------------------------------------------
(* The evaluation harness as a state machine over one DataSet object.      *)

Learners == {"PluralityLearner", "NearestNeighborLearner"}

\* DataSet(examples=E) with at least one example.
EvalInit ==
    /\ \E E \in SeqUpTo(DataRows, MaxEvalExamples) \ {<<>>} :
          dataset = DataSetInit(E, <<>>, 0 - 1, <<>>, {}).ds
    /\ op = "init"
    /\ arg = <<>>
    /\ ret = <<>>
    /\ err = "none"
    /\ before = dataset.examples
    /\ log = <<>>

\* The harness functions are called on the DataSet as constructed: EvalInit
\* draws it from every list of examples, so each order a call can leave the
\* examples in is also an order a call starts from.

\* train_and_test(learner, dataset, start, end), 0 <= start <= end <= len.
TrainAndTest ==
    /\ op = "init"
    /\ \E learner \in Learners, start \in 0..Len(dataset.examples),
          end \in 0..Len(dataset.examples) :
          /\ start <= end
          /\ \E r \in train_and_test(learner, dataset, start, end) :
                /\ dataset' = r.ds
                /\ err' = r.err
                /\ ret' = r.acc
                /\ log' = <<r.call>>
          /\ arg' = [learner |-> learner, start |-> start, end |-> end]
    /\ op' = "train_and_test"
    /\ before' = dataset.examples

\* cross_validation(learner, dataset, k), k None or a positive number.
CrossValidation ==
    /\ op = "init"
    /\ \E learner \in Learners, k \in {NoneVal} \cup (1..(Len(dataset.examples) + 1)) :
          /\ \E r \in cross_validation(learner, dataset, k, 1) :
                /\ dataset' = r.ds
                /\ err' = r.err
                /\ ret' = [accs |-> r.accs, shuffled |-> r.shuffled]
                /\ log' = r.calls
          /\ arg' = [learner |-> learner, k |-> k, trials |-> 1]
    /\ op' = "cross_validation"
    /\ before' = dataset.examples

\* cross_validation(learner, dataset, k, trials=2).
CrossValidationTrials ==
    /\ op = "init"
    /\ Len(dataset.examples) <= MaxTrialExamples
    /\ \E learner \in Learners, k \in 1..Len(dataset.examples) :
          /\ \E r \in cross_validation(learner, dataset, k, 2) :
                /\ dataset' = r.ds
                /\ err' = r.err
                /\ ret' = [accs |-> r.accs, shuffled |-> r.shuffled]
                /\ log' = r.calls
          /\ arg' = [learner |-> learner, k |-> k, trials |-> 2]
    /\ op' = "cross_validation"
    /\ before' = dataset.examples

\* leave1out(learner, dataset).
Leave1Out ==
    /\ op = "init"
    /\ \E learner \in Learners :
          /\ \E r \in leave1out(learner, dataset) :
                /\ dataset' = r.ds
                /\ err' = r.err
                /\ ret' = [accs |-> r.accs, shuffled |-> r.shuffled]
                /\ log' = r.calls
          /\ arg' = [learner |-> learner, k |-> Len(dataset.examples), trials |-> 1]
    /\ op' = "leave1out"
    /\ before' = dataset.examples

EvalNext == TrainAndTest \/ CrossValidation \/ CrossValidationTrials \/ Leave1Out

SpecEval == EvalInit /\ [][EvalNext]_vars


\* C3: train_and_test trains on exactly the examples outside [start, end) and
\* tests on exactly those inside it, and when it finishes, by returning or by
\* raising, dataset.examples is the sequence it was before the call.
C3_TrainAndTestRestores ==
    op = "train_and_test" =>
        LET n == Len(before)
            w == arg.end - arg.start
        IN  /\ Len(log) = 1
            /\ Len(log[1].trained) = n - w
            /\ \A j \in 1..(n - w) :
                  log[1].trained[j] = before[IF j <= arg.start THEN j ELSE j + w]
            /\ Len(log[1].tested) = w
            /\ \A j \in 1..w : log[1].tested[j] = before[arg.start + j]
            /\ dataset.examples = before

\* train_and_test ended by an exception of the predictor, with examples held out.
C3_Witness ==
    /\ op = "train_and_test"
    /\ arg.learner = "NearestNeighborLearner"
    /\ err = "IndexError"
    /\ Len(before) > 1
    /\ Len(log[1].tested) = Len(before)
    /\ dataset.examples = before

\* seq1 and seq2 hold the same elements the same number of times.
SameElements(seq1, seq2) ==
    /\ Len(seq1) = Len(seq2)
    /\ \A x \in Range(seq1) \cup Range(seq2) :
          Cardinality({i \in 1..Len(seq1) : seq1[i] = x})
              = Cardinality({i \in 1..Len(seq2) : seq2[i] = x})

CrossValidationReturned == op \in {"cross_validation", "leave1out"} /\ err = "none"

\* C4 as stated: after cross_validation (leave-one-out included) completes,
\* dataset.examples is in the order it had before the call.
C4_AsStated == CrossValidationReturned => dataset.examples = before

\* C4 amended: after cross_validation completes, dataset.examples is in the
\* order its last shuffle produced, a rearrangement of the examples it held
\* before the call.
C4_ShuffledOrderKept ==
    CrossValidationReturned =>
        /\ dataset.examples = ret.shuffled
        /\ SameElements(dataset.examples, before)

\* leave1out returned and left the examples in another order.
C4_Witness ==
    /\ op = "leave1out"
    /\ err = "none"
    /\ Len(log) = Len(before)
    /\ dataset.examples # before

\* C7: for 1 <= k <= n the k held-out ranges of a trial are contiguous,
\* pairwise disjoint and together cover all n examples: every index is held
\* out in exactly one fold.
C7_FoldsCoverAll ==
    LET n == Len(before)
        k == IF arg.k = NoneVal THEN n ELSE arg.k
    IN  (op = "cross_validation" /\ arg.trials = 1 /\ err = "none" /\ 1 <= k /\ k <= n) =>
            /\ Len(log) = k
            /\ \A i \in 1..Len(log) : log[i].start <= log[i].end
            /\ \A i \in 1..(Len(log) - 1) : log[i].end = log[i + 1].start
            /\ \A j \in 0..(n - 1) :
                  Cardinality({i \in 1..Len(log) : log[i].start <= j /\ j < log[i].end}) = 1

-----------------------------------------------------------------------------
(* The k-nearest-neighbour predictor as a state machine.                   *)

\* DataSet(examples=E) with at least one example.
NeighborInit ==
    /\ \E E \in SeqUpTo(DataRows, MaxNeighborExamples) \ {<<>>} :
          dataset = DataSetInit(E, <<>>, 0 - 1, <<>>, {}).ds
    /\ op = "init"
    /\ arg = <<>>
    /\ ret = <<>>
    /\ err = "none"
    /\ before = dataset.examples
    /\ log = <<>>

\* NearestNeighborLearner(dataset, k)(example), the example as a caller gives
\* it or sanitized as test gives it.
NearestNeighborPredict ==
    /\ \E k \in 1..MaxNeighborExamples, x \in AnyRows :
       \E example \in {x, sanitize(dataset, x).result} :
          /\ \E l \in NearestNeighborLearner(dataset, k) :
                \E o \in Predict(l.predict, dataset, example) :
                    /\ err' = o.err
                    /\ ret' = [best |-> NearestBest(dataset, k, example), value |-> o.value]
          /\ arg' = [k |-> k, example |-> example]
    /\ op' = "predict"
    /\ before' = dataset.examples
    /\ UNCHANGED <<dataset, log>>

NeighborNext == NearestNeighborPredict

SpecNeighbor == NeighborInit /\ [][NeighborNext]_vars

\* The distance of the i-th training example to the query of the last call.
QueryDistance(i) == mean_boolean_error(dataset.examples[i], arg.example)

\* The examples a selection of k that breaks distance ties by input order takes.
StableSelection ==
    {i \in 1..Len(dataset.examples) :
        Cardinality({j \in 1..Len(dataset.examples) :
            \/ FracLess(QueryDistance(j), QueryDistance(i))
            \/ FracEq(QueryDistance(j), QueryDistance(i)) /\ j < i}) < arg.k}

\* The examples a selection of k takes that breaks distance ties by the rows'
\* contents, and ties between identical rows by input order.
ContentSelection ==
    {i \in 1..Len(dataset.examples) :
        Cardinality({j \in 1..Len(dataset.examples) :
            \/ FracLess(QueryDistance(j), QueryDistance(i))
            \/ /\ FracEq(QueryDistance(j), QueryDistance(i))
               /\ \/ ListLess(dataset.examples[j], dataset.examples[i])
                  \/ dataset.examples[j] = dataset.examples[i] /\ j < i}) < arg.k}

\* best holds exactly the examples with the indices in selection.
BestIs(selection) ==
    /\ Len(ret.best) = Cardinality(selection)
    /\ \A row \in Range(dataset.examples) :
          Cardinality({i \in 1..Len(ret.best) : ret.best[i].e = row})
              = Cardinality({i \in selection : dataset.examples[i] = row})

\* C8 as stated: the predictor votes among the k examples of smallest
\* distance, equal distances taken in input order.
C8_AsStated == op = "predict" => BestIs(StableSelection)

\* C8 amended: the predictor votes among the k examples of smallest distance,
\* equal distances taken in the order of the rows' contents (input order only
\* between identical rows), and predicts a most common target among them.
C8_TiesByContent ==
    op = "predict" =>
        /\ BestIs(ContentSelection)
        /\ \A i \in 1..Len(ret.best) :
              FracEq(ret.best[i].d, mean_boolean_error(ret.best[i].e, arg.example))
        /\ \A i \in ContentSelection, j \in (1..Len(dataset.examples)) \ ContentSelection :
              ~FracLess(QueryDistance(j), QueryDistance(i))
        /\ err = "none"
        /\ LET votes == [i \in 1..Len(ret.best) |-> At(ret.best[i].e, dataset.target)]
           IN  \A w \in Range(votes) :
                   Cardinality({i \in 1..Len(votes) : votes[i] = w})
                       <= Cardinality({i \in 1..Len(votes) : votes[i] = ret.value})

\* Two examples at the same distance, the later one selected and the earlier not.
C8_Witness ==
    /\ op = "predict"
    /\ \E i \in 1..Len(dataset.examples), j \in 1..Len(dataset.examples) :
          /\ i < j
          /\ FracEq(QueryDistance(i), QueryDistance(j))
          /\ j \in ContentSelection
          /\ i \notin ContentSelection
          /\ At(dataset.examples[i], dataset.target) # ret.value

-----------------------------------------------------------------------------
(* Learning a decision tree from a DataSet and testing it on its examples. *)

TreeRows == [1..3 -> Vals]

\* DataSet(examples=E, exclude=X): three attributes, the last the target,
\* and two, one or no input attributes.
TreeInit ==
    /\ \E E \in SeqUpTo(TreeRows, MaxTreeExamples) \ {<<>>}, X \in {{}, {0}, {0, 1}} :
          dataset = DataSetInit(E, <<>>, 0 - 1, <<>>, X).ds
    /\ op = "init"
    /\ arg = <<>>
    /\ ret = <<>>
    /\ err = "none"
    /\ before = dataset.examples
    /\ log = <<>>

\* tree = DecisionTreeLearner(dataset).
LearnTree ==
    /\ op = "init"
    /\ \E tree \in DecisionTreeLearner(dataset) : ret' = tree
    /\ op' = "DecisionTreeLearner"
    /\ err' = "none"
    /\ arg' = <<>>
    /\ before' = dataset.examples
    /\ UNCHANGED <<dataset, log>>

\* test(tree, dataset) on the tree just learned.
TestTree ==
    /\ op = "DecisionTreeLearner"
    /\ \E t \in test([kind |-> "tree", tree |-> ret], dataset, dataset.examples) :
          /\ ret' = <<t.right, t.total>>
          /\ err' = t.err
    /\ op' = "test"
    /\ arg' = ret
    /\ before' = dataset.examples
    /\ UNCHANGED <<dataset, log>>

TreeNext == LearnTree \/ TestTree

SpecTree == TreeInit /\ [][TreeNext]_vars

\* No two examples agree on all input attributes and differ on the target.
Consistent(ds) ==
    \A i \in 1..Len(ds.examples), j \in 1..Len(ds.examples) :
        (\A a \in Range(ds.inputs) : At(ds.examples[i], a) = At(ds.examples[j], a))
            => At(ds.examples[i], ds.target) = At(ds.examples[j], ds.target)

\* C1: on a non-empty dataset with no two examples alike on the inputs and
\* different on the target, every tree DecisionTreeLearner may return
\* predicts, through test, every training example's target: accuracy 1.0.
C1_TreeFitsTrainingSet ==
    (op = "test" /\ Consistent(dataset)) =>
        /\ err = "none"
        /\ ret[2] = Len(dataset.examples)
        /\ ret[1] = ret[2]

\* A tree of two levels of forks, learned from a consistent dataset with two
\* classes, was tested.
C1_Witness ==
    /\ op = "test"
    /\ Consistent(dataset)
    /\ arg.kind = "fork"
    /\ \E v \in DOMAIN arg.branches : arg.branches[v].kind = "fork"
    /\ ret[1] = Len(dataset.examples)

\* C10: when all examples share one target value, DecisionTreeLearner returns
\* a single leaf holding that value, whatever the number of input attributes.
C10_PureDatasetGivesLeaf ==
    (op = "DecisionTreeLearner"
        /\ \A i \in 1..Len(dataset.examples) :
              At(dataset.examples[i], dataset.target) = At(dataset.examples[1], dataset.target))
      => /\ ret.kind = "leaf"
         /\ ret.result = At(dataset.examples[1], dataset.target)
         /\ ret.branches = <<>>

\* A leaf was returned for several differing examples of one class, with no
\* input attribute.
C10_Witness ==
    /\ op = "DecisionTreeLearner"
    /\ dataset.inputs = <<>>
    /\ Len(dataset.examples) > 1
    /\ dataset.examples[1] # dataset.examples[2]
    /\ \A i \in 1..Len(dataset.examples) :
          At(dataset.examples[i], dataset.target) = At(dataset.examples[1], dataset.target)
    /\ ret.kind = "leaf"

-----------------------------------------------------------------------------
(* DecisionTreeLearner step by step.  log is the stack of the calls of     *)
(* decision_tree_learning in progress, the innermost last.  A frame holds  *)
(* the call's arguments, the value v_k of the caller's loop it was made    *)
(* for, and, once the call has reached its else branch, the attribute A    *)
(* chosen, the values the loop has still to visit and the branches added   *)
(* to the fork so far.  ret is the tree the last return gave and arg the   *)
(* frame of the call that returned it.                                     *)

\* The frame of a call of decision_tree_learning that has not run yet.
Frame(examples, attrs, parent_examples, value) ==
    [examples |-> examples, attrs |-> attrs, parent_examples |-> parent_examples,
     value |-> value, attr |-> NoneVal, todo |-> {}, branches |-> <<>>]

\* A plausible slip: the recursive call is given all of attrs.
Subcall_keep_attrs(ds, frame, v) ==
    Frame(split_by(ds, frame.attr, frame.examples)[v], frame.attrs, frame.examples, v)

\* A plausible slip: the whole training set is passed as parent_examples.
Subcall_whole_set(ds, frame, v) ==
    Frame(split_by(ds, frame.attr, frame.examples)[v],
          removeall(frame.attr, frame.attrs), ds.examples, v)

\* decision_tree_learning(exs, removeall(A, attrs), examples) for the pair
\* (v_k, exs) of split_by(A, examples).
Subcall(ds, frame, v) ==
    Frame(split_by(ds, frame.attr, frame.examples)[v],
          removeall(frame.attr, frame.attrs), frame.examples, v)

\* The stack after the innermost call returns tree: tree.add(v_k, subtree)
\* in the caller, if there is one.
Returned(stack, tree) ==
    LET n == Len(stack)
    IN  IF n = 1 THEN <<>>
        ELSE [SubSeq(stack, 1, n - 1) EXCEPT ![n - 1].branches =
                 [v \in (DOMAIN @) \cup {stack[n].value} |->
                     IF v = stack[n].value THEN tree ELSE @[v]]]

\* The innermost call is at its first line.
AtEntry == log # <<>> /\ log[Len(log)].attr = NoneVal

\* The innermost call is in its for loop.
InLoop == log # <<>> /\ log[Len(log)].attr # NoneVal

InductionRows == [1..3 -> Vals]

\* DataSet(examples=E, exclude=X): three attributes, the last the target,
\* and two or one input attributes.  The examples are listed in
\* lexicographic order: the induction counts and filters them, and reads
\* examples[0] only where all have the same class.
InductionInit ==
    /\ \E E \in SeqUpTo(InductionRows, MaxInductionExamples) \ {<<>>}, X \in {{}, {0}} :
          /\ \A i \in 1..(Len(E) - 1) : ~ListLess(E[i + 1], E[i])
          /\ dataset = DataSetInit(E, <<>>, 0 - 1, <<>>, X).ds
    /\ op = "init"
    /\ arg = <<>>
    /\ ret = <<>>
    /\ err = "none"
    /\ before = dataset.examples
    /\ log = <<>>

\* DecisionTreeLearner(dataset): decision_tree_learning(dataset.examples, dataset.inputs).
CallLearner ==
    /\ op = "init"
    /\ log' = <<Frame(dataset.examples, dataset.inputs, <<>>, NoneVal)>>
    /\ op' = "call"
    /\ UNCHANGED <<dataset, arg, ret, err, before>>

\* len(examples) == 0: return plurality_value(parent_examples).
ReturnNoExamples ==
    /\ AtEntry
    /\ Len(log[Len(log)].examples) = 0
    /\ \E leaf \in plurality_value(dataset, log[Len(log)].parent_examples) :
          /\ ret' = leaf
          /\ log' = Returned(log, leaf)
    /\ arg' = log[Len(log)]
    /\ op' = "no_examples"
    /\ UNCHANGED <<dataset, err, before>>

\* all_same_class(examples): return DecisionLeaf(examples[0][target]).
ReturnSameClass ==
    /\ AtEntry
    /\ Len(log[Len(log)].examples) # 0
    /\ all_same_class(dataset, log[Len(log)].examples)
    /\ ret' = DecisionLeaf(At(log[Len(log)].examples[1], dataset.target))
    /\ log' = Returned(log, ret')
    /\ arg' = log[Len(log)]
    /\ op' = "same_class"
    /\ UNCHANGED <<dataset, err, before>>

\* len(attrs) == 0: return plurality_value(examples).
ReturnNoAttrs ==
    /\ AtEntry
    /\ Len(log[Len(log)].examples) # 0
    /\ ~all_same_class(dataset, log[Len(log)].examples)
    /\ Len(log[Len(log)].attrs) = 0
    /\ \E leaf \in plurality_value(dataset, log[Len(log)].examples) :
          /\ ret' = leaf
          /\ log' = Returned(log, leaf)
    /\ arg' = log[Len(log)]
    /\ op' = "no_attrs"
    /\ UNCHANGED <<dataset, err, before>>

\* A = choose_attribute(attrs, examples); tree = DecisionFork(A, ...); the
\* loop is over split_by(A, examples).
ChooseAttribute ==
    /\ AtEntry
    /\ Len(log[Len(log)].examples) # 0
    /\ ~all_same_class(dataset, log[Len(log)].examples)
    /\ Len(log[Len(log)].attrs) # 0
    /\ \E A \in choose_attribute(dataset, log[Len(log)].attrs, log[Len(log)].examples) :
          log' = [log EXCEPT ![Len(log)].attr = A,
                             ![Len(log)].todo =
                                 DOMAIN split_by(dataset, A, log[Len(log)].examples)]
    /\ op' = "choose"
    /\ UNCHANGED <<dataset, arg, ret, err, before>>

\* The next pair (v_k, exs) of the loop: the recursive call.
Recurse ==
    /\ InLoop
    /\ log[Len(log)].todo # {}
    /\ LET v == CHOOSE v \in log[Len(log)].todo : \A w \in log[Len(log)].todo : v <= w
       IN  log' = Append([log EXCEPT ![Len(log)].todo = @ \ {v}],
                         Subcall(dataset, log[Len(log)], v))
    /\ op' = "call"
    /\ UNCHANGED <<dataset, arg, ret, err, before>>

\* The loop is over: return tree.
ReturnFork ==
    /\ InLoop
    /\ log[Len(log)].todo = {}
    /\ ret' = DecisionFork(log[Len(log)].attr, log[Len(log)].branches)
    /\ log' = Returned(log, ret')
    /\ arg' = log[Len(log)]
    /\ op' = "fork"
    /\ UNCHANGED <<dataset, err, before>>

InductionNext ==
    \/ CallLearner
    \/ ReturnNoExamples
    \/ ReturnSameClass
    \/ ReturnNoAttrs
    \/ ChooseAttribute
    \/ Recurse
    \/ ReturnFork

SpecInduction == InductionInit /\ [][InductionNext]_vars

\* A call in progress always takes its next step.
SpecInductionFair == SpecInduction /\ WF_vars(InductionNext)

\* The examples of a node with value v for the attribute attr.
ExamplesWith(examples, attr, v) == SelectSeq(examples, LAMBDA e : At(e, attr) = v)

\* The values of the attribute attr found among examples.
ValuesPresent(examples, attr) == {At(examples[i], attr) : i \in 1..Len(examples)}

\* A fork was returned: ret is the fork and arg the call that built it.
ForkReturned == op = "fork"

\* C11 as stated: a fork on A has a branch for v exactly when v occurs for A
\* among the examples at its node.
C11_AsStated ==
    ForkReturned => DOMAIN ret.branches = ValuesPresent(arg.examples, ret.attr)

\* C11 amended: a fork on A has a branch for every value of A's value set in
\* the dataset, found among the node's examples or not, and the branch for v
\* is a subtree learned from the node's examples with A == v, with A removed
\* from the attributes and the node's examples as parent_examples.
C11_BranchPerValueOfAttribute ==
    ForkReturned =>
        /\ ret.kind = "fork"
        /\ ret.attr \in Range(arg.attrs)
        /\ DOMAIN ret.branches = At(dataset.values, ret.attr)
        /\ \A v \in DOMAIN ret.branches :
              ret.branches[v] \in
                  decision_tree_learning(dataset, ExamplesWith(arg.examples, ret.attr, v),
                                         SelectSeq(arg.attrs, LAMBDA a : a # ret.attr),
                                         arg.examples)

\* A fork below the root was returned with a branch, a leaf, for a value
\* none of its node's examples has, beside a branch for a value they have.
C11_Witness ==
    /\ ForkReturned
    /\ log # <<>>
    /\ \E v \in DOMAIN ret.branches :
          /\ v \notin ValuesPresent(arg.examples, ret.attr)
          /\ ret.branches[v].kind = "leaf"
    /\ \E v \in DOMAIN ret.branches : v \in ValuesPresent(arg.examples, ret.attr)

\* The target value result is among the most frequent in examples.
MostFrequent(result, examples) ==
    \A w \in At(dataset.values, dataset.target) \cup ValuesPresent(examples, dataset.target) :
        count(dataset.target, w, examples) <= count(dataset.target, result, examples)

\* C12: the leaf returned for a branch with no examples holds a target value
\* most frequent among the examples of the enclosing fork's node, and the
\* leaf returned for an impure node with no attributes left holds one most
\* frequent among the node's own examples, whichever way a tie is broken.
C12_FallbackLeafIsPlurality ==
    /\ op = "no_examples" =>
          /\ log # <<>>
          /\ log[Len(log)].attr # NoneVal
          /\ arg.examples = <<>>
          /\ arg.parent_examples = log[Len(log)].examples
          /\ ret.kind = "leaf"
          /\ MostFrequent(ret.result, log[Len(log)].examples)
    /\ op = "no_attrs" =>
          /\ arg.attrs = <<>>
          /\ ~all_same_class(dataset, arg.examples)
          /\ ret.kind = "leaf"
          /\ MostFrequent(ret.result, arg.examples)

\* A branch with no examples got a leaf holding the majority of the
\* enclosing node, which is not a most frequent value of the training set.
C12_Witness ==
    /\ op = "no_examples"
    /\ Len(log) = 2
    /\ arg.parent_examples # dataset.examples
    /\ MostFrequent(ret.result, arg.parent_examples)
    /\ ~MostFrequent(ret.result, dataset.examples)

\* Every path of tree tests attributes outside used, each at most once, and
\* has at most left forks.
RECURSIVE PathsTestOnce(_, _, _)
PathsTestOnce(tree, used, left) ==
    \/ tree.kind = "leaf"
    \/ /\ tree.attr \notin used
       /\ left > 0
       /\ \A v \in DOMAIN tree.branches :
             PathsTestOnce(tree.branches[v], used \cup {tree.attr}, left - 1)

\* Each call in progress has fewer attributes than its caller, the forks
\* under construction test different attributes, and there are no more of
\* them than input attributes.
PathShrinks ==
    /\ \A i \in 2..Len(log) : Len(log[i].attrs) < Len(log[i - 1].attrs)
    /\ \A i \in 1..Len(log), j \in 1..Len(log) :
          (i < j /\ log[i].attr # NoneVal) => log[i].attr # log[j].attr
    /\ Cardinality({i \in 1..Len(log) : log[i].attr # NoneVal}) <= Len(dataset.inputs)

\* DecisionTreeLearner has returned: ret is the tree.
LearnerReturned == op \in {"no_examples", "same_class", "no_attrs", "fork"} /\ log = <<>>

\* C13: the induction terminates: each recursive call has fewer attributes
\* left than its caller, the learner returns, and on every path of the tree
\* returned each input attribute is tested at most once, so that a path has
\* at most as many forks as there are input attributes.
C13_InductionTerminates ==
    /\ [](PathShrinks /\ (LearnerReturned =>
                              PathsTestOnce(ret, {}, Len(dataset.inputs))))
    /\ <>LearnerReturned

\* The learner returned a tree with a path of as many forks as there are
\* input attributes, two.
C13_Witness ==
    /\ LearnerReturned
    /\ Len(dataset.inputs) = 2
    /\ ret.kind = "fork"
    /\ \E v \in DOMAIN ret.branches : ret.branches[v].kind = "fork"

=============================================================================
